---------------------------- MODULE Spec2Model ----------------------------
(***************************************************************************)
(* A model of src/main.js: the Calculator class (compute, computeMD,       *)
(* computeAS, solve, evaluateExpression, __findInnermostBrackets) and the  *)
(* button handlers that feed it.                                           *)
(*                                                                         *)
(* Strings are sequences of one-character strings.  A JavaScript Number is *)
(* modelled as a decimal floating-point value (sign, significand,          *)
(* exponent) with Precision significant digits, rounded to nearest-even    *)
(* after every operation, plus NaN.  The conversions the program relies on *)
(* are modelled by what they do: parseFloat reads the longest numeric      *)
(* prefix, Number-to-string prints the shortest digits and switches to     *)
(* exponent notation below 1e-6 and from 1e21.  Infinity and -0 are not    *)
(* represented: no modelled input overflows, and -0 prints as "0" and      *)
(* compares equal to 0.                                                    *)
(***************************************************************************)
EXTENDS Integers, Sequences, FiniteSets

(***************************************************************************)
(* Bounds of the model.                                                    *)
(***************************************************************************)
MaxLen == 4        \* longest expression typed on the buttons
MaxOps == 2        \* most operators in a generated flat expression

(***************************************************************************)
(* Characters.                                                             *)
(***************************************************************************)
DigitChars == <<"0", "1", "2", "3", "4", "5", "6", "7", "8", "9">>

IsDigit(c) == \E d \in 1..10 : DigitChars[d] = c

DigitVal(c) == (CHOOSE d \in 1..10 : DigitChars[d] = c) - 1

DigitChar(d) == DigitChars[d + 1]

(***************************************************************************)
(* JavaScript string primitives, with JavaScript's 0-based positions.      *)
(***************************************************************************)
charAt(s, i) == s[i + 1]

slice(s, from, to) == SubSeq(s, from + 1, to)

sliceFrom(s, from) == SubSeq(s, from + 1, Len(s))

RECURSIVE indexOf(_, _, _)
indexOf(s, c, from) ==
    IF from >= Len(s) THEN -1
    ELSE IF charAt(s, from) = c THEN from
    ELSE indexOf(s, c, from + 1)

(***************************************************************************)
(* Numbers.                                                                *)
(***************************************************************************)
Precision == 4

RECURSIVE Pow10(_)
Pow10(k) == IF k <= 0 THEN 1 ELSE 10 * Pow10(k - 1)

RECURSIVE NumDigits(_)
NumDigits(n) == IF n < 10 THEN 1 ELSE 1 + NumDigits(n \div 10)

NaN == [nan |-> TRUE, neg |-> FALSE, m |-> 0, e |-> 0]

Zero == [nan |-> FALSE, neg |-> FALSE, m |-> 0, e |-> 0]

\* n * 10^e with the trailing zeros of n moved into the exponent.
RECURSIVE Canonical(_, _, _)
Canonical(neg, n, e) ==
    IF n = 0 THEN Zero
    ELSE IF n % 10 = 0 THEN Canonical(neg, n \div 10, e + 1)
    ELSE [nan |-> FALSE, neg |-> neg, m |-> n, e |-> e]

\* The Number nearest to n * 10^e (or to a value just above it when
\* inexact), ties to even.
MkNumber(neg, n, e, inexact) ==
    LET k == NumDigits(n) - Precision
    IN  IF k <= 0 THEN Canonical(neg, n, e)
        ELSE LET unit == Pow10(k)
                 q    == n \div unit
                 r    == n % unit
                 half == unit \div 2
                 up   == r > half \/ (r = half /\ (inexact \/ q % 2 = 1))
             IN  Canonical(neg, IF up THEN q + 1 ELSE q, e + k)

Negate(a) == IF a.nan \/ a.m = 0 THEN a ELSE [a EXCEPT !.neg = ~a.neg]

IsZero(a) == ~a.nan /\ a.m = 0

\* a + b
NumAdd(a, b) ==
    IF a.nan \/ b.nan THEN NaN
    ELSE IF a.m = 0 THEN b
    ELSE IF b.m = 0 THEN a
    ELSE LET hi == IF a.e >= b.e THEN a ELSE b
             lo == IF a.e >= b.e THEN b ELSE a
             d  == hi.e - lo.e
         IN  IF NumDigits(hi.m) + d > 9 THEN hi
             ELSE LET x == hi.m * Pow10(d)
                      s == (IF hi.neg THEN 0 - x ELSE x)
                           + (IF lo.neg THEN 0 - lo.m ELSE lo.m)
                  IN  IF s < 0 THEN MkNumber(TRUE, 0 - s, lo.e, FALSE)
                      ELSE MkNumber(FALSE, s, lo.e, FALSE)

\* a - b
NumSub(a, b) == NumAdd(a, Negate(b))

\* a * b
NumMul(a, b) ==
    IF a.nan \/ b.nan THEN NaN
    ELSE MkNumber(a.neg # b.neg, a.m * b.m, a.e + b.e, FALSE)

\* a / b, for b # 0
NumDiv(a, b) ==
    IF a.nan \/ b.nan THEN NaN
    ELSE IF a.m = 0 THEN Zero
    ELSE LET j == Precision - NumDigits(a.m)
             n == a.m * Pow10(j) * Pow10(Precision + 1)
         IN  MkNumber(a.neg # b.neg, n \div b.m,
                      a.e - j - (Precision + 1) - b.e, n % b.m # 0)

(***************************************************************************)
(* parseFloat: optional sign, digits with an optional point (at least one  *)
(* digit), optional exponent; whatever follows is ignored, and a string    *)
(* with no such prefix is NaN.                                             *)
(***************************************************************************)
RECURSIVE DigitRun(_, _)
\* the number of digits of s from 0-based position i on
DigitRun(s, i) ==
    IF i < Len(s) /\ IsDigit(charAt(s, i)) THEN 1 + DigitRun(s, i + 1) ELSE 0

RECURSIVE ReadDigits(_, _, _, _)
\* acc = [n, drop, sticky]: the digits read so far as the integer n, with
\* drop digits left off its end, sticky when a digit left off was not 0
ReadDigits(s, i, count, acc) ==
    IF count = 0 THEN acc
    ELSE LET d == DigitVal(charAt(s, i))
         IN  IF acc.n < Pow10(2 * Precision)
             THEN ReadDigits(s, i + 1, count - 1,
                             [acc EXCEPT !.n = acc.n * 10 + d])
             ELSE ReadDigits(s, i + 1, count - 1,
                             [acc EXCEPT !.drop = acc.drop + 1,
                                         !.sticky = acc.sticky \/ d # 0])

RECURSIVE ReadExponent(_, _, _, _)
ReadExponent(s, i, count, n) ==
    IF count = 0 THEN n
    ELSE ReadExponent(s, i + 1, count - 1,
                      IF n >= 1000 THEN n ELSE n * 10 + DigitVal(charAt(s, i)))

parseFloat(s) ==
    LET hasSign  == Len(s) > 0 /\ s[1] \in {"+", "-"}
        neg      == hasSign /\ s[1] = "-"
        p0       == IF hasSign THEN 1 ELSE 0
        intLen   == DigitRun(s, p0)
        p1       == p0 + intLen
        hasPoint == p1 < Len(s) /\ charAt(s, p1) = "."
        fracLen  == IF hasPoint THEN DigitRun(s, p1 + 1) ELSE 0
        p2       == IF hasPoint THEN p1 + 1 + fracLen ELSE p1
        hasE     == p2 < Len(s) /\ charAt(s, p2) \in {"e", "E"}
        eSign    == hasE /\ p2 + 1 < Len(s) /\ charAt(s, p2 + 1) \in {"+", "-"}
        p3       == IF eSign THEN p2 + 2 ELSE p2 + 1
        expLen   == IF hasE THEN DigitRun(s, p3) ELSE 0
        expAbs   == ReadExponent(s, p3, expLen, 0)
        exp      == IF eSign /\ charAt(s, p2 + 1) = "-" THEN 0 - expAbs ELSE expAbs
        start    == [n |-> 0, drop |-> 0, sticky |-> FALSE]
        ipart    == ReadDigits(s, p0, intLen, start)
        fpart    == ReadDigits(s, p1 + 1, fracLen, ipart)
        kept     == fracLen - (fpart.drop - ipart.drop)
    IN  IF intLen + fracLen = 0 THEN NaN
        ELSE MkNumber(neg, fpart.n, exp + ipart.drop - kept, fpart.sticky)

(***************************************************************************)
(* Number to string (radix 10).                                            *)
(***************************************************************************)
RECURSIVE DigitString(_)
DigitString(n) ==
    IF n < 10 THEN <<DigitChar(n)>>
    ELSE Append(DigitString(n \div 10), DigitChar(n % 10))

RECURSIVE Zeros(_)
Zeros(k) == IF k <= 0 THEN <<>> ELSE <<"0">> \o Zeros(k - 1)

NumberToString(a) ==
    IF a.nan THEN <<"N", "a", "N">>
    ELSE IF a.m = 0 THEN <<"0">>
    ELSE LET ds   == DigitString(a.m)
             k    == Len(ds)
             n    == a.e + k
             sign == IF a.neg THEN <<"-">> ELSE <<>>
             body ==
                 IF k <= n /\ n <= 21 THEN ds \o Zeros(n - k)
                 ELSE IF 0 < n /\ n <= 21
                      THEN SubSeq(ds, 1, n) \o <<".">> \o SubSeq(ds, n + 1, k)
                 ELSE IF -6 < n /\ n <= 0
                      THEN <<"0", ".">> \o Zeros(0 - n) \o ds
                 ELSE LET x    == n - 1
                          es   == IF x < 0 THEN <<"-">> ELSE <<"+">>
                          ed   == DigitString(IF x < 0 THEN 0 - x ELSE x)
                          mant == IF k = 1 THEN ds
                                  ELSE <<ds[1]>> \o <<".">> \o SubSeq(ds, 2, k)
                      IN  mant \o <<"e">> \o es \o ed
         IN  sign \o body

(***************************************************************************)
(* Values a Calculator method returns: a Number, a string, or the thrown   *)
(* Error('Cannot divide by zero').  NoValue stands for "nothing returned   *)
(* yet".                                                                   *)
(***************************************************************************)
NumVal(n) == [t |-> "num", n |-> n, s |-> <<>>]

StrVal(s) == [t |-> "str", n |-> Zero, s |-> s]

Thrown == [t |-> "throw", n |-> Zero, s |-> <<>>]

NoValue == [t |-> "none", n |-> Zero, s |-> <<>>]

\* `${v}`, and what string concatenation makes of v
ToStr(v) == IF v.t = "num" THEN NumberToString(v.n) ELSE v.s

\* `${error}` for new Error('Cannot divide by zero')
ErrorText ==
    <<"E", "r", "r", "o", "r", ":", " ", "C", "a", "n", "n", "o", "t", " ",
      "d", "i", "v", "i", "d", "e", " ", "b", "y", " ", "z", "e", "r", "o">>

(***************************************************************************)
(* Calculator.computeMD and Calculator.computeAS: the operator lists and   *)
(* the callbacks they hand to solve.                                       *)
(***************************************************************************)
OperatorsMD == {"*", "/"}

OperatorsAS == {"+", "-"}

supportedOperators(level) == IF level = "MD" THEN OperatorsMD ELSE OperatorsAS

callbackMD(a, b, operator) ==
    IF operator = "*" THEN NumVal(NumMul(a, b))
    ELSE IF IsZero(b) THEN Thrown
    ELSE NumVal(NumDiv(a, b))

callbackAS(a, b, operator) ==
    IF operator = "+" THEN NumVal(NumAdd(a, b)) ELSE NumVal(NumSub(a, b))

operateCallback(level, a, b, operator) ==
    IF level = "MD" THEN callbackMD(a, b, operator) ELSE callbackAS(a, b, operator)

(***************************************************************************)
(* Calculator.solve.                                                       *)
(***************************************************************************)
RECURSIVE scan(_, _, _, _)
\* the for-of loop over expr from 0-based position i, with
\* st = [detectedNums, operations, numString]
scan(expr, i, operators, st) ==
    IF i >= Len(expr) THEN st
    ELSE LET char == charAt(expr, i)
         IN  IF char \notin operators
             THEN scan(expr, i + 1, operators,
                       [st EXCEPT !.numString = Append(st.numString, char)])
             ELSE scan(expr, i + 1, operators,
                       [detectedNums |-> Append(st.detectedNums,
                                                parseFloat(st.numString)),
                        operations   |-> Append(st.operations, char),
                        numString    |-> <<>>])

scanAll(expr, operators) ==
    scan(expr, 0, operators,
         [detectedNums |-> <<>>, operations |-> <<>>, numString |-> <<>>])

\* a faulty variant: the pattern /[^0-9]/, which forgets the decimal point
hasNonNumericNoPoint(numString) ==
    \E k \in 1..Len(numString) : ~IsDigit(numString[k])

\* /[^0-9.]/.test(numString)
hasNonNumeric(numString) ==
    \E k \in 1..Len(numString) :
        ~IsDigit(numString[k]) /\ numString[k] # "."

RECURSIVE fold(_, _, _, _, _)
\* the loop of lines 85-87 from 0-based index i on, result so far in result
fold(level, detectedNums, operations, i, result) ==
    IF i >= Len(detectedNums) THEN NumVal(result)
    ELSE LET r == operateCallback(level, result, detectedNums[i + 1],
                                  operations[i])
         IN  IF r.t = "throw" THEN r
             ELSE fold(level, detectedNums, operations, i + 1, r.n)

\* lines 84-89
foldAll(level, detectedNums, operations) ==
    fold(level, detectedNums, operations, 1, detectedNums[1])

\* lines 75-89, with st as the scan left it
afterScan(expr, level, st) ==
    IF hasNonNumeric(st.numString) THEN StrVal(expr)
    ELSE foldAll(level, Append(st.detectedNums, parseFloat(st.numString)),
                 st.operations)

\* lines 63-89, for expr already a string
solveString(expr, level) ==
    afterScan(expr, level, scanAll(expr, supportedOperators(level)))

solve(v, level) == solveString(ToStr(v), level)

computeMD(v) == solve(v, "MD")

computeAS(v) == solve(v, "AS")

(***************************************************************************)
(* Calculator.__findInnermostBrackets.  NoBrackets is its null.            *)
(***************************************************************************)
NoBrackets == [openBracket |-> -1, closedBracket |-> -1]

RECURSIVE findFromNoStart(_, _)
\* a faulty variant: expr.indexOf(')') without the position to start from
findFromNoStart(expr, i) ==
    IF i < 0 THEN NoBrackets
    ELSE IF charAt(expr, i) = "(" /\ indexOf(expr, ")", 0) # -1
         THEN [openBracket |-> i, closedBracket |-> indexOf(expr, ")", 0)]
         ELSE findFromNoStart(expr, i - 1)

RECURSIVE findFrom(_, _)
findFrom(expr, i) ==
    IF i < 0 THEN NoBrackets
    ELSE IF charAt(expr, i) = "(" /\ indexOf(expr, ")", i) # -1
         THEN [openBracket |-> i, closedBracket |-> indexOf(expr, ")", i)]
         ELSE findFrom(expr, i - 1)

findInnermostBrackets(expr) == findFrom(expr, Len(expr) - 1)

(***************************************************************************)
(* Calculator.evaluateExpression and Calculator.compute.                   *)
(***************************************************************************)
innerExpr(expr, b) == slice(expr, b.openBracket + 1, b.closedBracket)

leftOuter(expr, b) == slice(expr, 0, b.openBracket)

rightOuter(expr, b) == sliceFrom(expr, b.closedBracket + 1)

\* lines 116-121: the two flat passes
\* line 121, unless computeMD threw
thenAS(md) == IF md.t = "throw" THEN md ELSE computeAS(md)

flatPasses(expr) == thenAS(computeMD(StrVal(expr)))

\* a faulty variant: rightOuter sliced from closedBracket, keeping the ")"
substituteKeepClose(expr, brackets, inner) ==
    IF inner.t = "throw" THEN inner
    ELSE StrVal(leftOuter(expr, brackets) \o ToStr(inner)
                \o sliceFrom(expr, brackets.closedBracket))

\* line 112: the new expr, or the throw of the inner call
substitute(expr, brackets, inner) ==
    IF inner.t = "throw" THEN inner
    ELSE StrVal(leftOuter(expr, brackets) \o ToStr(inner)
                \o rightOuter(expr, brackets))

RECURSIVE evaluateExpression(_)

\* lines 113-121 once line 112 has made next of expr
continueLoop(next) ==
    IF next.t = "throw" THEN next ELSE evaluateExpression(next.s)

\* lines 100-121 with brackets as line 99 or 113 set it
evaluateWith(expr, brackets) ==
    IF brackets # NoBrackets
    THEN continueLoop(substitute(expr, brackets,
                                 evaluateExpression(innerExpr(expr, brackets))))
    ELSE flatPasses(expr)

evaluateExpression(expr) == evaluateWith(expr, findInnermostBrackets(expr))

\* the catch of compute
caught(v) == IF v.t = "throw" THEN StrVal(ErrorText) ELSE v

compute(expression) == caught(evaluateExpression(expression))

(***************************************************************************)
(* The program's state.                                                    *)
(*   problem  the accumulated expression (line 208)                        *)
(*   screen   calculatorScreen.textContent                                 *)
(*   pc       "idle" between clicks, "eval" while compute(problem) runs    *)
(*   expr     evaluateExpression's working expression in the outer call    *)
(*   iters    iterations of its bracket loop done so far                   *)
(*   result   what compute returned to the last "=" click, NoValue once    *)
(*            another button has been clicked (history)                    *)
(*   pressed  the characters clicked since the last Cancel (history)       *)
(*   lastKey  the kind of the last button clicked, "==" for an "=" that    *)
(*            follows an "=" (history)                                     *)
(***************************************************************************)
VARIABLES problem, screen, pc, expr, iters, result, pressed, lastKey

vars == <<problem, screen, pc, expr, iters, result, pressed, lastKey>>

\* data-values of the buttons other than "=" and "Cancel"
Buttons == {"0", "1", ".", "+", "-", "*", "/", "(", ")"}

\* problem = '' (line 208); the screen element is taken to start empty, no
\* line of main.js writes it before the first click
Init ==
    /\ problem = <<>>
    /\ screen = <<>>
    /\ pc = "idle"
    /\ expr = <<>>
    /\ iters = 0
    /\ result = NoValue
    /\ pressed = <<>>
    /\ lastKey = "none"

(***************************************************************************)
(* The click handler of setupEventHandlers.  JavaScript runs a handler to  *)
(* completion, so a click is taken only when pc = "idle".                  *)
(***************************************************************************)
\* a faulty variant: the character is appended to what the screen shows
PressCharacterOnScreen(character) ==
    /\ pc = "idle"
    /\ Len(problem) < MaxLen
    /\ problem' = screen \o <<character>>
    /\ screen' = problem'
    /\ pressed' = Append(pressed, character)
    /\ lastKey' = "character"
    /\ result' = NoValue
    /\ UNCHANGED <<pc, expr, iters>>

\* default: problem += character; the screen shows problem
PressCharacter(character) ==
    /\ pc = "idle"
    /\ Len(problem) < MaxLen
    /\ problem' = problem \o <<character>>
    /\ screen' = problem'
    /\ pressed' = Append(pressed, character)
    /\ lastKey' = "character"
    /\ result' = NoValue
    /\ UNCHANGED <<pc, expr, iters>>

\* case 'Cancel'
PressCancel ==
    /\ pc = "idle"
    /\ screen' = <<>>
    /\ problem' = <<>>
    /\ pressed' = <<>>
    /\ lastKey' = "Cancel"
    /\ result' = NoValue
    /\ UNCHANGED <<pc, expr, iters>>

\* case '=': calculateExpression() calls calculator.compute(problem), which
\* enters evaluateExpression(problem)
PressEquals ==
    /\ pc = "idle"
    /\ pc' = "eval"
    /\ expr' = problem
    /\ iters' = 0
    /\ lastKey' = (IF lastKey \in {"=", "=="} THEN "==" ELSE "=")
    /\ UNCHANGED <<problem, screen, result, pressed>>

\* a faulty variant: the output also becomes the new problem
showResultStoring(v) ==
    /\ screen' = ToStr(v)
    /\ problem' = ToStr(v)
    /\ result' = v
    /\ pc' = "idle"
    /\ expr' = <<>>
    /\ iters' = 0
    /\ UNCHANGED <<pressed, lastKey>>

\* compute returns v to the handler: calculatorScreen.textContent = v
showResult(v) ==
    /\ screen' = ToStr(v)
    /\ result' = v
    /\ pc' = "idle"
    /\ expr' = <<>>
    /\ iters' = 0
    /\ UNCHANGED <<problem, pressed, lastKey>>

\* the body of the bracket loop (lines 101-112) for the pair found
loopBody(e, brackets) ==
    substitute(e, brackets, evaluateExpression(innerExpr(e, brackets)))

\* the outer call goes on with the new expr, or the throw reaches compute
afterLoopBody(next) ==
    IF next.t = "throw" THEN showResult(caught(next))
    ELSE /\ expr' = next.s
         /\ iters' = iters + 1
         /\ UNCHANGED <<problem, screen, pc, result, pressed, lastKey>>

\* one iteration of the while loop of the outer evaluateExpression call
ResolveBrackets ==
    /\ pc = "eval"
    /\ findInnermostBrackets(expr) # NoBrackets
    /\ afterLoopBody(loopBody(expr, findInnermostBrackets(expr)))

\* the loop has ended: computeMD, computeAS, return through compute
FinishFlat ==
    /\ pc = "eval"
    /\ findInnermostBrackets(expr) = NoBrackets
    /\ showResult(caught(flatPasses(expr)))

Next ==
    \/ \E character \in Buttons : PressCharacter(character)
    \/ PressCancel
    \/ PressEquals
    \/ ResolveBrackets
    \/ FinishFlat

Spec == Init /\ [][Next]_vars

(***************************************************************************)
(* Expressions entered whole: the expressions testEvaluateExpression       *)
(* evaluates, every flat expression of up to MaxOps operators over         *)
(* FlatLits, and bracketed expressions of two nesting levels over BrLits.  *)
(***************************************************************************)
Ops == {"+", "-", "*", "/"}

TestExpressions ==
    { <<"2", "+", "2">>,
      <<"2", "-", "1">>,
      <<"3", "*", "4">>,
      <<"1", "0", "/", "2">>,
      <<"2", "+", "(", "2", "*", "5", ")">>,
      <<"2", "*", "(", "2", "+", "5", ")">>,
      <<"(", "2", "+", "1", ")", "*", "(", "4", "-", "3", ")">>,
      <<"1", "2", "*", "(", "1", "2", "-", "(", "6", "+", "6", ")", ")">>,
      <<"1", "2", "*", "(", "1", "2", "-", "(", "6", ")", ")">> }

FlatLits ==
    { <<"0">>, <<"2">>, <<"5">>,
      <<"1", "0", "0", "0", "0", "0", "0", "0">> }

BrLits == { <<"6">>, <<"1", "2">> }

Join(X, Y) == { x \o <<op>> \o y : x \in X, op \in Ops, y \in Y }

Wrap(x) == <<"(">> \o x \o <<")">>

RECURSIVE FlatExprs(_)
\* the flat expressions of exactly k operators
FlatExprs(k) ==
    IF k = 0 THEN FlatLits ELSE Join(FlatExprs(k - 1), FlatLits)

FlatInputs == UNION { FlatExprs(k) : k \in 0..MaxOps }

Group1 == { Wrap(x) : x \in BrLits \cup Join(BrLits, BrLits) }

Group2 ==
    { Wrap(x) : x \in Group1 \cup Join(BrLits, Group1) \cup Join(Group1, BrLits) }

BracketInputs ==
    Group1 \cup Group2
        \cup Join(BrLits \cup Group1, Group1) \cup Join(Group1, BrLits)
        \cup Join(BrLits, Group2) \cup Join(Group2, BrLits)

ExprInputs == TestExpressions \cup FlatInputs \cup BracketInputs

\* the expression is on the screen as typed, "=" not yet clicked
InitExpr ==
    /\ problem \in ExprInputs
    /\ screen = problem
    /\ pc = "idle"
    /\ expr = <<>>
    /\ iters = 0
    /\ result = NoValue
    /\ pressed = problem
    /\ lastKey = "character"

\* the same program, started with an expression already entered
SpecExpr == InitExpr /\ [][Next]_vars

(***************************************************************************)
(* The arithmetic the claims refer to: the syntax of a well-formed         *)
(* expression and its value under standard precedence, by recursive        *)
(* descent.  Neither is part of the program.                               *)
(***************************************************************************)
IsLitChar(c) == IsDigit(c) \/ c = "."

RECURSIVE LitRun(_, _)
\* the number of digits and points of s from 0-based position i on
LitRun(s, i) ==
    IF i < Len(s) /\ IsLitChar(charAt(s, i)) THEN 1 + LitRun(s, i + 1) ELSE 0

\* a number literal: digits with at most one point, at least one digit
IsLiteral(w) ==
    /\ \A k \in 1..Len(w) : IsLitChar(w[k])
    /\ \E k \in 1..Len(w) : IsDigit(w[k])
    /\ Cardinality({ k \in 1..Len(w) : w[k] = "." }) <= 1

RECURSIVE WfExpr(_, _)
\* the position after the expression that starts at i, -1 if there is none
WfAtomEnd(s, i, afterInner) ==
    IF afterInner # -1 /\ afterInner < Len(s) /\ charAt(s, afterInner) = ")"
    THEN afterInner + 1 ELSE -1

WfLitEnd(s, i, k) == IF IsLiteral(slice(s, i, i + k)) THEN i + k ELSE -1

WfAtom(s, i) ==
    IF i < Len(s) /\ charAt(s, i) = "(" THEN WfAtomEnd(s, i, WfExpr(s, i + 1))
    ELSE WfLitEnd(s, i, LitRun(s, i))

WfRest(s, j) ==
    IF j = -1 THEN -1
    ELSE IF j < Len(s) /\ charAt(s, j) \in Ops THEN WfExpr(s, j + 1)
    ELSE j

WfExpr(s, i) == WfRest(s, WfAtom(s, i))

WellFormed(s) == WfExpr(s, 0) = Len(s)

HasBrackets(s) == \E k \in 1..Len(s) : s[k] \in {"(", ")"}

WellFormedFlat(s) == WellFormed(s) /\ ~HasBrackets(s)

OpsOf(s) == { s[k] : k \in 1..Len(s) } \cap Ops

\* x op y on values, a division by zero or an earlier throw giving Thrown
Apply(op, x, y) ==
    IF x.t = "throw" \/ y.t = "throw" THEN Thrown
    ELSE IF op = "+" THEN NumVal(NumAdd(x.n, y.n))
    ELSE IF op = "-" THEN NumVal(NumSub(x.n, y.n))
    ELSE IF op = "*" THEN NumVal(NumMul(x.n, y.n))
    ELSE IF IsZero(y.n) THEN Thrown
    ELSE NumVal(NumDiv(x.n, y.n))

RECURSIVE RefExpr(_, _)
RECURSIVE RefTermRest(_, _, _)
RECURSIVE RefExprRest(_, _, _)
\* each returns [v: the value, i: the position after what it read]
RefClose(r) == [v |-> r.v, i |-> r.i + 1]

RefLit(s, i, k) == [v |-> NumVal(parseFloat(slice(s, i, i + k))), i |-> i + k]

RefAtom(s, i) ==
    IF charAt(s, i) = "(" THEN RefClose(RefExpr(s, i + 1))
    ELSE RefLit(s, i, LitRun(s, i))

RefTermStep(s, op, acc, a) == RefTermRest(s, a.i, Apply(op, acc, a.v))

RefTermRest(s, i, acc) ==
    IF i < Len(s) /\ charAt(s, i) \in OperatorsMD
    THEN RefTermStep(s, charAt(s, i), acc, RefAtom(s, i + 1))
    ELSE [v |-> acc, i |-> i]

RefTermFrom(s, a) == RefTermRest(s, a.i, a.v)

RefTerm(s, i) == RefTermFrom(s, RefAtom(s, i))

RefExprStep(s, op, acc, term) == RefExprRest(s, term.i, Apply(op, acc, term.v))

RefExprRest(s, i, acc) ==
    IF i < Len(s) /\ charAt(s, i) \in OperatorsAS
    THEN RefExprStep(s, charAt(s, i), acc, RefTerm(s, i + 1))
    ELSE [v |-> acc, i |-> i]

RefExprFrom(s, term) == RefExprRest(s, term.i, term.v)

RefExpr(s, i) == RefExprFrom(s, RefTerm(s, i))

\* the value of the well-formed expression s
Ref(s) == RefExpr(s, 0).v

(***************************************************************************)
(* Properties.                                                             *)
(***************************************************************************)
\* compute has just returned result for problem
Returned == pc = "idle" /\ result.t # "none"

\* C1: a well-formed flat expression that mixes + or - with * or / (no
\* division by zero) evaluates to its value under standard precedence.
C1_Precedence ==
    ( /\ Returned
      /\ WellFormedFlat(problem)
      /\ OpsOf(problem) \cap OperatorsAS # {}
      /\ OpsOf(problem) \cap OperatorsMD # {}
      /\ Ref(problem).t # "throw" )
        => result = Ref(problem)

\* C2: a well-formed expression with brackets, each pair enclosing at most
\* one operation, evaluates to its mathematical value whatever the values of
\* the bracket contents are.
C2_BracketsPreserveValue ==
    ( /\ Returned
      /\ WellFormed(problem)
      /\ HasBrackets(problem)
      /\ Ref(problem).t # "throw" )
        => result = Ref(problem)

\* C3: a well-formed flat expression whose operators all belong to one level
\* (no division by zero) evaluates to the left fold of its numbers.
C3_LeftFold ==
    ( /\ Returned
      /\ WellFormedFlat(problem)
      /\ OpsOf(problem) # {}
      /\ (OpsOf(problem) \subseteq OperatorsAS \/ OpsOf(problem) \subseteq OperatorsMD)
      /\ Ref(problem).t # "throw" )
        => result = Ref(problem)

\* C4: whenever the evaluation of a well-formed expression divides by zero,
\* compute returns the error text.
C4_DivisionByZeroSurfaced ==
    (Returned /\ WellFormed(problem) /\ Ref(problem).t = "throw")
        => result = StrVal(ErrorText)

\* C5: for a malformed, non-empty input without any division compute returns
\* the input string unchanged.
C5_MalformedEchoed ==
    ( /\ Returned
      /\ problem # <<>>
      /\ ~WellFormed(problem)
      /\ "/" \notin OpsOf(problem) )
        => result = StrVal(problem)

\* C6: an "=" clicked right after an "=" shows the same output again, and
\* compute returns the same value again.
C6_Idempotent ==
    [][(pc = "eval" /\ pc' = "idle" /\ lastKey = "==")
           => (screen' = screen /\ result' = result)]_vars

C6_Witness ==
    /\ pc = "idle"
    /\ lastKey = "=="
    /\ result = StrVal(ErrorText)
    /\ screen = ErrorText

\* the buffer solve is left with after its scan, at each level
TrailingMD(s) == scanAll(s, OperatorsMD).numString

\* md is what computeMD returned
TrailingAS(md) == scanAll(ToStr(md), OperatorsAS).numString

RECURSIVE LastOp(_, _)
\* the last operator of s at or before 1-based position k, "" if none
LastOp(s, k) ==
    IF k = 0 THEN "" ELSE IF s[k] \in Ops THEN s[k] ELSE LastOp(s, k - 1)

\* C7 as claimed: for a well-formed flat expression neither level is left
\* with anything but digits and points, and neither returns its input.
NoEchoAtEitherLevel(s, md) ==
    /\ ~hasNonNumeric(TrailingMD(s))
    /\ md.t # "str"
    /\ md.t = "num" => (~hasNonNumeric(TrailingAS(md)) /\ result.t = "num")

C7_NoEchoAtEitherLevel ==
    (Returned /\ WellFormedFlat(problem))
        => NoEchoAtEitherLevel(problem, computeMD(StrVal(problem)))

\* C7 amended: for a well-formed flat expression the multiply/divide level
\* returns its input unevaluated exactly when the last operator is + or -;
\* the add/subtract level is never left with anything but digits and points
\* and never returns its input, so the result is a number.
EchoOnlyAtMD(s, md) ==
    /\ hasNonNumeric(TrailingMD(s)) <=> LastOp(s, Len(s)) \in OperatorsAS
    /\ hasNonNumeric(TrailingMD(s)) <=> md = StrVal(s)
    /\ md.t # "throw" => (~hasNonNumeric(TrailingAS(md)) /\ result.t = "num")

C7_EchoOnlyAtMD ==
    (Returned /\ WellFormedFlat(problem))
        => EchoOnlyAtMD(problem, computeMD(StrVal(problem)))

C7_Witness ==
    /\ Returned
    /\ WellFormedFlat(problem)
    /\ OpsOf(problem) = {"*", "+"}
    /\ LastOp(problem, Len(problem)) = "+"
    /\ computeMD(StrVal(problem)) = StrVal(problem)
    /\ result.t = "num"

\* what C8 says of the pair b found in e
InnermostPair(e, b) ==
    /\ 0 <= b.openBracket
    /\ b.openBracket < b.closedBracket
    /\ b.closedBracket < Len(e)
    /\ charAt(e, b.openBracket) = "("
    /\ charAt(e, b.closedBracket) = ")"
    /\ \A k \in (b.openBracket + 1)..(b.closedBracket - 1) :
           charAt(e, k) \notin {"(", ")"}
    /\ ~HasBrackets(innerExpr(e, b))

SomeOpenBeforeClose(e) ==
    \E i \in 1..Len(e) : e[i] = "(" /\ \E j \in i..Len(e) : e[j] = ")"

BracketsFound(e, b) ==
    IF b = NoBrackets THEN ~SomeOpenBeforeClose(e) ELSE InnermostPair(e, b)

\* C8: the pair __findInnermostBrackets returns is an innermost one, and it
\* returns null exactly when no "(" has a ")" after it; for the typed
\* expression and for every working expression of the bracket loop.
C8_InnermostBrackets ==
    /\ BracketsFound(problem, findInnermostBrackets(problem))
    /\ BracketsFound(expr, findInnermostBrackets(expr))

\* in 12*(12-(6+6)) the pair found is the one around 6+6
C8_Witness ==
    /\ pc = "eval"
    /\ iters = 0
    /\ expr = <<"1", "2", "*", "(", "1", "2", "-", "(", "6", "+", "6", ")", ")">>
    /\ findInnermostBrackets(expr) = [openBracket |-> 7, closedBracket |-> 11]

RECURSIVE CountChar(_, _)
CountChar(s, c) ==
    IF s = <<>> THEN 0
    ELSE (IF Head(s) = c THEN 1 ELSE 0) + CountChar(Tail(s), c)

\* C9: every iteration of the bracket loop removes exactly one ")" and adds
\* no bracket, so the loop runs at most once per ")" of the input.
C9_LoopBounded ==
    pc = "eval"
        => /\ iters + CountChar(expr, ")") = CountChar(problem, ")")
           /\ CountChar(expr, "(") + iters = CountChar(problem, "(")
           /\ iters <= CountChar(problem, ")")

\* 12*(12-(6+6)) after the two iterations its two ")" allow
C9_Witness ==
    /\ pc = "eval"
    /\ iters = 2
    /\ problem = <<"1", "2", "*", "(", "1", "2", "-", "(", "6", "+", "6", ")", ")">>
    /\ expr = <<"1", "2", "*", "0">>
    /\ findInnermostBrackets(expr) = NoBrackets

\* C10: problem is the characters clicked since the last Cancel; Cancel
\* empties problem and the screen; "=" leaves problem alone and shows
\* compute(problem); any other click shows problem.
C10_Accumulation ==
    /\ problem = pressed
    /\ pc = "idle" =>
           /\ lastKey = "Cancel" => (problem = <<>> /\ screen = <<>>)
           /\ lastKey \in {"=", "=="} => screen = ToStr(compute(problem))
           /\ lastKey = "character" => screen = problem

C10_Witness ==
    /\ pc = "idle"
    /\ lastKey = "="
    /\ Len(problem) = MaxLen
    /\ screen # problem
    /\ result.t = "num"

=============================================================================
